---- MODULE Spec2Model ----
(***************************************************************************)
(* FatBit: the weight-entry store (DataManager), the archive import of the *)
(* web front end (webapp.py) and the file import of the desktop front end  *)
(* (FatBit.py), with the manual add / edit / delete / settings handlers.   *)
(*                                                                         *)
(* Values.  Python values that may be None / NaN / text are records with a *)
(* kind field k, so that every field of a row has one shape:               *)
(*   number-or-null   [k: "null" | "num" | "nan" | "str", v]               *)
(*   weight_kg        [k: "null" | "num", whole, frac]  (frac in 1e-8 kg)  *)
(*   date string      [k: "none" | "nan" | "mdy" | "ymd" | "raw", ...]     *)
(*   time string      [k: "none" | "hms" | "raw", ...]                     *)
(* Heights are in centimetres, bmi values in hundredths.                   *)
(***************************************************************************)
EXTENDS Integers, Sequences, FiniteSets, TLC

(* ------------------------------------------------------------------ *)
(* Bounds of the model                                                *)
(* ------------------------------------------------------------------ *)

\* ids the store may hand out (AUTOINCREMENT never reuses an id)
MaxId == 2

(* ------------------------------------------------------------------ *)
(* Program constants                                                  *)
(* ------------------------------------------------------------------ *)

\* webapp.py: "if weight_kg > 200" (both archive branches)
ArchiveLbThreshold == 200
\* FatBit.py: "weight * 0.45359237 if weight > 100 else weight"
DeviceLbThreshold == 100
\* 0.45359237 as 45359237 / 10^8
LbFactorE8 == 45359237

(* ------------------------------------------------------------------ *)
(* Values                                                             *)
(* ------------------------------------------------------------------ *)

Null == [k |-> "null", v |-> 0]
Num(n) == [k |-> "num", v |-> n]
NaN == [k |-> "nan", v |-> 0]
Str == [k |-> "str", v |-> 0]

\* Python truthiness of a value read from a row: None and 0 are falsy,
\* NaN and a non-empty text are truthy.
Truthy(x) == CASE x.k = "null" -> FALSE
               [] x.k = "num" -> x.v # 0
               [] OTHER -> TRUE

\* Python's "a or b"
Or(a, b) == IF Truthy(a) THEN a ELSE b

\* What sqlite stores for a bound number: None and NaN become NULL.
Stored(x) == IF x.k = "num" THEN x ELSE IF x.k = "str" THEN x ELSE Null

NullKg == [k |-> "null", whole |-> 0, frac |-> 0]
Kg(w) == [k |-> "num", whole |-> w, frac |-> 0]

\* w * 0.45359237 for a whole number w >= 0, exact, in two limbs so that
\* no product leaves 32 bits: w * 45359237 = (w * 4535) * 10^4 + w * 9237.
LbToKg(w) ==
  LET lo == w * (LbFactorE8 % 10000)
      hi == w * (LbFactorE8 \div 10000) + (lo \div 10000)
  IN  [k |-> "num", whole |-> hi \div 10000,
       frac |-> (hi % 10000) * 10000 + (lo % 10000)]

\* weight_kg in millionths of a kilogram (the operand of the bmi division)
KgMicro(kg) == kg.whole * 1000000 + (kg.frac \div 100)

NoDate == [k |-> "none", s |-> "", y |-> 0, m |-> 0, d |-> 0, z |-> FALSE]
\* "mm/dd/yy"; z: written with leading zeros ("01/05/23") or not ("1/5/23")
Mdy(m, d, y, z) == [k |-> "mdy", s |-> "", y |-> y, m |-> m, d |-> d, z |-> z]
\* "yyyy-mm-dd"
Ymd(y, m, d) == [k |-> "ymd", s |-> "", y |-> y, m |-> m, d |-> d, z |-> TRUE]
\* any other text
RawDate(s) == [k |-> "raw", s |-> s, y |-> 0, m |-> 0, d |-> 0, z |-> FALSE]
\* an empty CSV cell, which pandas reads as the float NaN
NaNDate == [k |-> "nan", s |-> "", y |-> 0, m |-> 0, d |-> 0, z |-> FALSE]

NoTime == [k |-> "none", s |-> "", h |-> 0, mi |-> 0, se |-> 0]
Hms(h, mi, se) == [k |-> "hms", s |-> "", h |-> h, mi |-> mi, se |-> se]
RawTime(s) == [k |-> "raw", s |-> s, h |-> 0, mi |-> 0, se |-> 0]

\* str(x) of a date value: text stays, None gives "None", NaN gives "nan"
StrDate(x) == CASE x.k = "none" -> RawDate("None")
                [] x.k = "nan" -> RawDate("nan")
                [] OTHER -> x

StrTime(x) == IF x.k = "none" THEN RawTime("None") ELSE x

(* ------------------------------------------------------------------ *)
(* The derived timestamp                                              *)
(* ------------------------------------------------------------------ *)

IsLeap(y) == (y % 4 = 0) /\ ((y % 100 # 0) \/ (y % 400 = 0))

DaysIn(y, m) == CASE m \in {4, 6, 9, 11} -> 30
                  [] m = 2 -> IF IsLeap(y) THEN 29 ELSE 28
                  [] OTHER -> 31

ValidDay(y, m, d) == m \in 1..12 /\ d >= 1 /\ d <= DaysIn(y, m)

\* strptime's %y: 00..68 are 2000..2068, 69..99 are 1969..1999
Year2(yy) == IF yy < 69 THEN 2000 + yy ELSE 1900 + yy

\* datetime.strptime(date + " " + time, "%m/%d/%y %H:%M:%S") succeeds
ParsesMdyHms(date, time) ==
  /\ date.k = "mdy"
  /\ date.y \in 0..99
  /\ ValidDay(Year2(date.y), date.m, date.d)
  /\ time.k = "hms"
  /\ time.h \in 0..23 /\ time.mi \in 0..59 /\ time.se \in 0..59

\* Texts are sequences of character codes, so that two timestamps are equal
\* or ordered as sqlite compares TEXT values (byte by byte).
Dec2(n) == <<48 + (n \div 10), 48 + (n % 10)>>
Dec4(n) == Dec2(n \div 100) \o Dec2(n % 100)
Dec(n) == IF n < 10 THEN <<48 + n>> ELSE Dec2(n)

\* the texts "", "nan" and "None"
RawText(s) == CASE s = "" -> <<>>
                [] s = "nan" -> <<110, 97, 110>>
                [] s = "None" -> <<78, 111, 110, 101>>
                [] OTHER -> <<63>>

\* f"{entry['date']}" and f"{entry['time']}"
DateText(x) ==
  CASE x.k = "mdy" -> IF x.z THEN Dec2(x.m) \o <<47>> \o Dec2(x.d) \o <<47>> \o Dec2(x.y)
                      ELSE Dec(x.m) \o <<47>> \o Dec(x.d) \o <<47>> \o Dec2(x.y)
    [] x.k = "ymd" -> Dec4(x.y) \o <<45>> \o Dec2(x.m) \o <<45>> \o Dec2(x.d)
    [] x.k = "raw" -> RawText(x.s)
    [] x.k = "nan" -> RawText("nan")
    [] OTHER -> RawText("None")

TimeText(x) ==
  CASE x.k = "hms" -> Dec2(x.h) \o <<58>> \o Dec2(x.mi) \o <<58>> \o Dec2(x.se)
    [] x.k = "raw" -> RawText(x.s)
    [] OTHER -> RawText("None")

\* dt_str = f"{entry['date']} {entry['time']}"
DtStr(date, time) == DateText(date) \o <<32>> \o TimeText(time)

\* (a variant that never parses: the timestamp is always the raw text)
MutDeriveTimestamp(date, time) == DtStr(date, time)

\* strftime("%Y-%m-%d %H:%M:%S") of the parsed value, or the raw text
\* date + " " + time when the parse raised.
DeriveTimestamp(date, time) ==
  IF ParsesMdyHms(date, time)
  THEN Dec4(Year2(date.y)) \o <<45>> \o Dec2(date.m) \o <<45>> \o Dec2(date.d)
       \o <<32>> \o TimeText(time)
  ELSE DtStr(date, time)

(* ------------------------------------------------------------------ *)
(* DataManager (webapp.py); db is the entries table, in insert order  *)
(* ------------------------------------------------------------------ *)

\* An entry dict: logId, date, time, weight_kg, fat_percent, bmi, source
MkEntry(logId, date, time, kg, fat, bmi, source) ==
  [logId |-> logId, date |-> date, time |-> time, weight_kg |-> kg,
   fat_percent |-> fat, bmi |-> bmi, source |-> source]

\* the row INSERT / UPDATE writes for an entry
RowOf(id, entry) ==
  [id |-> id, logId |-> Stored(entry.logId), date |-> entry.date,
   time |-> entry.time, timestamp |-> DeriveTimestamp(entry.date, entry.time),
   weight_kg |-> entry.weight_kg, fat_percent |-> Stored(entry.fat_percent),
   bmi |-> Stored(entry.bmi), source |-> entry.source]

\* DataManager.add_entry: db is [rows, next]
DbAddEntry(db, entry) ==
  [rows |-> Append(db.rows, RowOf(db.next, entry)), next |-> db.next + 1]

\* "SELECT 1 FROM entries WHERE logId=?": NULL and NaN match nothing
LogIdMatch(rows, log_id) ==
  log_id.k = "num" /\ \E i \in 1..Len(rows) : rows[i].logId = log_id

\* (a variant without the timestamp SELECT)
MutTimestampMatch(rows, timestamp) == FALSE

\* "SELECT 1 FROM entries WHERE timestamp=?"
TimestampMatch(rows, timestamp) ==
  \E i \in 1..Len(rows) : rows[i].timestamp = timestamp

\* (a variant that looks at the timestamp only when there is no logId)
MutEntryExists(rows, log_id, timestamp) ==
  IF log_id.k # "null" THEN LogIdMatch(rows, log_id)
  ELSE TimestampMatch(rows, timestamp)

\* DataManager.entry_exists
EntryExists(rows, log_id, timestamp) ==
  IF log_id.k # "null" /\ LogIdMatch(rows, log_id) THEN TRUE
  ELSE TimestampMatch(rows, timestamp)

\* (a variant that looks the entry up under the raw text date + " " + time)
MutDbAddIfNew(db, entry) ==
  LET timestamp == MutDeriveTimestamp(entry.date, entry.time)
  IN  IF ~EntryExists(db.rows, entry.logId, timestamp)
      THEN [db |-> DbAddEntry(db, entry), ret |-> TRUE]
      ELSE [db |-> db, ret |-> FALSE]

\* DataManager.add_if_new: [db, ret]
DbAddIfNew(db, entry) ==
  LET timestamp == DeriveTimestamp(entry.date, entry.time)
  IN  IF ~EntryExists(db.rows, entry.logId, timestamp)
      THEN [db |-> DbAddEntry(db, entry), ret |-> TRUE]
      ELSE [db |-> db, ret |-> FALSE]

\* positions of the rows with this id
WithId(rows, id) == {i \in 1..Len(rows) : rows[i].id = id}

\* (a variant that refuses an update into a collision with another row)
MutDbUpdateEntry(db, entry_id, updated_entry) ==
  IF \E i \in 1..Len(db.rows) :
        /\ db.rows[i].id # entry_id
        /\ \/ db.rows[i].timestamp =
                DeriveTimestamp(updated_entry.date, updated_entry.time)
           \/ (updated_entry.logId.k = "num"
               /\ db.rows[i].logId = updated_entry.logId)
  THEN db
  ELSE [db EXCEPT !.rows = [i \in 1..Len(db.rows) |->
          IF db.rows[i].id = entry_id THEN RowOf(entry_id, updated_entry)
          ELSE db.rows[i]]]

\* DataManager.update_entry: "UPDATE ... WHERE id=?"
DbUpdateEntry(db, entry_id, updated_entry) ==
  [db EXCEPT !.rows = [i \in 1..Len(db.rows) |->
     IF db.rows[i].id = entry_id THEN RowOf(entry_id, updated_entry)
     ELSE db.rows[i]]]

RECURSIVE Without(_, _)
Without(rows, id) ==
  IF rows = <<>> THEN <<>>
  ELSE IF Head(rows).id = id THEN Without(Tail(rows), id)
  ELSE <<Head(rows)>> \o Without(Tail(rows), id)

\* DataManager.delete_entry: "DELETE FROM entries WHERE id=?"
DbDeleteEntry(db, entry_id) == [db EXCEPT !.rows = Without(db.rows, entry_id)]

\* a < b as sqlite orders TEXT values (memcmp, the shorter prefix first)
RECURSIVE TextLess(_, _)
TextLess(a, b) ==
  IF b = <<>> THEN FALSE
  ELSE IF a = <<>> THEN TRUE
  ELSE IF Head(a) # Head(b) THEN Head(a) < Head(b)
  ELSE TextLess(Tail(a), Tail(b))

\* DataManager.get_all_entries: "SELECT * FROM entries ORDER BY timestamp".
\* The order of rows with equal timestamps is not specified: every
\* arrangement of the rows that is ascending by timestamp is a result.
GetAllEntries(rows) ==
  LET n == Len(rows)
      perms == {p \in [1..n -> 1..n] : \A i, j \in 1..n : i # j => p[i] # p[j]}
      sorted(p) == \A i \in 1..n - 1 :
                     ~TextLess(rows[p[i + 1]].timestamp, rows[p[i]].timestamp)
  IN  {[i \in 1..n |-> rows[p[i]]] : p \in {q \in perms : sorted(q)}}

(* ------------------------------------------------------------------ *)
(* Source rows and files                                              *)
(* ------------------------------------------------------------------ *)

\* One decoded object of a JSON payload, or one row of the CSV frame (its
\* column names already trimmed and lower-cased); an absent key is "none".
\* wkg2 is the key / column "weight (kg)".
EmptyRow ==
  [date |-> NoDate, dateTime |-> NoDate, time |-> NoTime,
   weight |-> Null, weight_kg |-> Null, wkg2 |-> Null,
   logId |-> Null, logid |-> Null, fat |-> Null, fat_percent |-> Null,
   bmi |-> Null]

\* Python truthiness of a date value: None and "" are falsy
DateTruthy(x) == ~(x.k = "none" \/ (x.k = "raw" /\ x.s = ""))

DateOr(a, b) == IF DateTruthy(a) THEN a ELSE b

\* row.get("time", "00:00:00")
TimeOrDefault(t) == IF t.k = "none" THEN Hms(0, 0, 0) ELSE t

\* datetime.strptime(s, "%Y-%m-%d") succeeds
ParsesYmd(x) == x.k = "ymd" /\ x.y \in 1..9999 /\ ValidDay(x.y, x.m, x.d)

\* isinstance(date_val, str) and "-" in date_val
IsDashed(x) == x.k = "ymd"

\* strptime(...).strftime("%m/%d/%y") of a hyphenated date
YmdToMdy(x) == Mdy(x.m, x.d, x.y % 100, TRUE)

\* One member of an archive, or the content of one plain file.
\*   wname   the base name starts with "weight-" (and ends in .json)
\*   kind    "bad" (json.load raises), "list", "dict" or "scalar"
\*   rows    the list's objects; for a dict, its first list value
\*   haslist for a dict: one of its values is a list
\*   self    a dict read as one row
Member(wname, kind, rows) ==
  [wname |-> wname, kind |-> kind, rows |-> rows, haslist |-> (kind = "dict"),
   self |-> EmptyRow]

DictMember(wname, self) ==
  [wname |-> wname, kind |-> "dict", rows |-> <<>>, haslist |-> FALSE,
   self |-> self]

NoCsv == [present |-> FALSE, ok |-> FALSE, rows |-> <<>>]
Csv(rows) == [present |-> TRUE, ok |-> TRUE, rows |-> rows]

\* A file offered to an import.
\*   name_zip  its name ends in ".zip"
\*   is_zip    its content is a zip archive
\*   csv       the member whose name ends in "Weight.csv", if any
\*   json      the members whose names end in ".json", in namelist order
\*             (for a plain JSON file: its one payload)
ZipFile(csv, json) ==
  [name_zip |-> TRUE, is_zip |-> TRUE, csv |-> csv, json |-> json]
JsonFile(m) ==
  [name_zip |-> FALSE, is_zip |-> FALSE, csv |-> NoCsv, json |-> <<m>>]
NotAZip ==
  [name_zip |-> TRUE, is_zip |-> FALSE, csv |-> NoCsv, json |-> <<>>]

(* ------------------------------------------------------------------ *)
(* import_fitbit_zip (webapp.py)                                      *)
(* ------------------------------------------------------------------ *)

\* The running state of an import: the table, new_count, whether an
\* exception has been raised, the number of members opened, and per source
\* row what became of it ("skip", "new", "dup" or "raise"; id of a new row).
ImportStart(db) ==
  [db |-> db, count |-> 0, raised |-> FALSE, opened |-> 0, log |-> <<>>]

Logged(st, row, path, w, out, id) ==
  Append(st.log, [src |-> row, path |-> path, w |-> w, out |-> out, id |-> id])

MutArchiveKg(weight) ==
  IF weight.k = "nan" THEN NullKg
  ELSE IF weight.v >= ArchiveLbThreshold THEN LbToKg(weight.v) ELSE Kg(weight.v)

\* weight_kg = float(weight); if weight_kg > 200: weight_kg *= 0.45359237
\* (NaN compares false and is stored as NULL)
ArchiveKg(weight) ==
  IF weight.k = "nan" THEN NullKg
  ELSE IF weight.v > ArchiveLbThreshold THEN LbToKg(weight.v) ELSE Kg(weight.v)

\* (a variant that overwrites the stored row when the entry is not new)
MutOfferEntry(st, row, path, weight, entry) ==
  LET r == DbAddIfNew(st.db, entry)
      ts == DeriveTimestamp(entry.date, entry.time)
      upd == [i \in 1..Len(st.db.rows) |->
                IF st.db.rows[i].timestamp = ts
                THEN RowOf(st.db.rows[i].id, entry) ELSE st.db.rows[i]]
  IN  [st EXCEPT !.db = IF r.ret THEN r.db ELSE [st.db EXCEPT !.rows = upd],
                 !.count = IF r.ret THEN @ + 1 ELSE @,
                 !.log = Logged(st, row, path, weight,
                                IF r.ret THEN "new" ELSE "dup",
                                IF r.ret THEN st.db.next ELSE 0)]

\* the entry dict both branches build, and the add_if_new call
OfferEntry(st, row, path, weight, entry) ==
  LET r == DbAddIfNew(st.db, entry)
  IN  [st EXCEPT !.db = r.db,
                 !.count = IF r.ret THEN @ + 1 ELSE @,
                 !.log = Logged(st, row, path, weight,
                                IF r.ret THEN "new" ELSE "dup",
                                IF r.ret THEN st.db.next ELSE 0)]

RaiseAt(st, row, path, weight) ==
  [st EXCEPT !.raised = TRUE, !.log = Logged(st, row, path, weight, "raise", 0)]

SkipRow(st, row, path, weight) ==
  [st EXCEPT !.log = Logged(st, row, path, weight, "skip", 0)]

\* one iteration of "for _, row in df.iterrows()"
CsvRow(st, row, source) ==
  LET date_val == row.date
      time_val == TimeOrDefault(row.time)
      weight == Or(row.weight, row.wkg2)
  IN  IF weight.k = "null" THEN SkipRow(st, row, "csv", weight)
      ELSE IF weight.k = "str" THEN RaiseAt(st, row, "csv", weight)
      ELSE IF IsDashed(date_val) /\ ~ParsesYmd(date_val)
           THEN RaiseAt(st, row, "csv", weight)
      ELSE OfferEntry(st, row, "csv", weight,
             MkEntry(row.logid,
                     IF IsDashed(date_val) THEN YmdToMdy(date_val)
                     ELSE StrDate(date_val),
                     StrTime(time_val), ArchiveKg(weight), row.fat, row.bmi,
                     source))

\* one iteration of "for row in data"
JsonRow(st, row, source) ==
  LET date_val == DateOr(row.date, row.dateTime)
      time_val == TimeOrDefault(row.time)
      weight == Or(Or(row.weight, row.weight_kg), row.wkg2)
  IN  IF weight.k = "null" \/ date_val.k = "none"
      THEN SkipRow(st, row, "json", weight)
      ELSE IF weight.k = "str" THEN RaiseAt(st, row, "json", weight)
      ELSE IF IsDashed(date_val) /\ ~ParsesYmd(date_val)
           THEN RaiseAt(st, row, "json", weight)
      ELSE OfferEntry(st, row, "json", weight,
             MkEntry(Or(row.logId, row.logid),
                     IF IsDashed(date_val) THEN YmdToMdy(date_val)
                     ELSE StrDate(date_val),
                     StrTime(time_val), ArchiveKg(weight),
                     Or(row.fat, row.fat_percent), row.bmi, source))

RECURSIVE CsvRows(_, _, _)
CsvRows(st, rows, source) ==
  IF st.raised \/ rows = <<>> THEN st
  ELSE CsvRows(CsvRow(st, Head(rows), source), Tail(rows), source)

RECURSIVE JsonRows(_, _, _)
JsonRows(st, rows, source) ==
  IF st.raised \/ rows = <<>> THEN st
  ELSE JsonRows(JsonRow(st, Head(rows), source), Tail(rows), source)

\* json.load, then the search for the list of entries
JsonMember(st, m, source) ==
  LET opened == [st EXCEPT !.opened = @ + 1]
  IN  CASE m.kind = "bad" -> [opened EXCEPT !.raised = TRUE]
        [] m.kind = "list" -> JsonRows(opened, m.rows, source)
        [] m.kind = "dict" ->
             IF m.haslist THEN JsonRows(opened, m.rows, source)
             ELSE JsonRows(opened, <<m.self>>, source)
        [] OTHER -> [opened EXCEPT !.raised = TRUE]

RECURSIVE JsonMembers(_, _, _)
JsonMembers(st, ms, source) ==
  IF st.raised \/ ms = <<>> THEN st
  ELSE JsonMembers(JsonMember(st, Head(ms), source), Tail(ms), source)

\* (a variant that takes every .json member)
MutWeightMembers(ms) == ms

\* [n for n in names if n.lower().endswith('.json') and basename starts 'weight-']
WeightMembers(ms) == SelectSeq(ms, LAMBDA m : m.wname)

\* an archive with no member named *Weight.csv and none named weight-*.json
NoWeightData(file) ==
  /\ file.is_zip /\ ~file.csv.present
  /\ \A i \in 1..Len(file.json) : ~file.json[i].wname

\* (a variant that goes on to the JSON members after the CSV rows)
MutImportBody(db, file, source) ==
  LET st == ImportStart(db)
  IN  IF ~file.is_zip THEN [st EXCEPT !.raised = TRUE]
      ELSE IF file.csv.present /\ ~file.csv.ok
      THEN [st EXCEPT !.opened = 1, !.raised = TRUE]
      ELSE IF file.csv.present
      THEN JsonMembers(CsvRows([st EXCEPT !.opened = 1], file.csv.rows, source),
                       WeightMembers(file.json), source)
      ELSE IF WeightMembers(file.json) = <<>> THEN [st EXCEPT !.raised = TRUE]
      ELSE JsonMembers(st, WeightMembers(file.json), source)

\* the import proper, from its first line to its return or its exception
ImportBody(db, file, source) ==
  LET st == ImportStart(db)
  IN  IF ~file.is_zip THEN [st EXCEPT !.raised = TRUE]
      ELSE IF file.csv.present
      THEN IF ~file.csv.ok THEN [st EXCEPT !.opened = 1, !.raised = TRUE]
           ELSE CsvRows([st EXCEPT !.opened = 1], file.csv.rows, source)
      ELSE IF WeightMembers(file.json) = <<>> THEN [st EXCEPT !.raised = TRUE]
      ELSE JsonMembers(st, WeightMembers(file.json), source)

\* (a variant that undoes its inserts when it raises)
MutImportFitbitZip(db, file, source) ==
  LET st == ImportBody(db, file, source)
  IN  IF st.raised THEN [st EXCEPT !.db = db] ELSE st

\* import_fitbit_zip(file_obj, source): the state when it returns or raises;
\* every add_entry has committed, so an exception leaves the table as it is
ImportFitbitZip(db, file, source) == ImportBody(db, file, source)

(* ------------------------------------------------------------------ *)
(* MainWindow.load_files / _process_json_file (FatBit.py)             *)
(* ------------------------------------------------------------------ *)

\* Truthiness of a configured height: None and 0.0 are falsy
HeightSet(h) == h.k = "num" /\ h.v # 0

\* weight_kg / height ** 2, in hundredths (height in centimetres)
ComputeBmi(kg, h) ==
  IF kg.k = "num" THEN Num(KgMicro(kg) \div (h.v * h.v)) ELSE NaN

\* weight * 0.45359237 if weight > 100 else weight
DeviceKg(weight) ==
  IF weight.k = "nan" THEN NullKg
  ELSE IF weight.v > DeviceLbThreshold THEN LbToKg(weight.v) ELSE Kg(weight.v)

\* the value of a row's own "weight_kg" key as the INSERT binds it
OwnKg(x) == IF x.k = "num" THEN Kg(x.v) ELSE NullKg

\* The running state of _process_json_file adds lw, the local variable
\* weight_kg, which is unbound until a row with a weight has been seen and
\* then keeps its value over the following rows.
Unbound == [k |-> "unbound", whole |-> 0, frac |-> 0]

\* one iteration of "for entry in data"
DeviceRow(st, row, user_height) ==
  LET weight == row.weight
      lw == IF weight.k # "null" THEN DeviceKg(weight) ELSE st.lw
      kg == IF weight.k # "null" THEN lw ELSE OwnKg(row.weight_kg)
      bmi == IF HeightSet(user_height) THEN ComputeBmi(lw, user_height)
             ELSE row.bmi
      entry == MkEntry(row.logId, row.date, row.time, kg, row.fat, bmi, "None")
  IN  IF weight.k = "str" THEN RaiseAt(st, row, "device", weight)
      ELSE IF HeightSet(user_height) /\ lw.k = "unbound"
           THEN RaiseAt(st, row, "device", weight)
      ELSE IF row.date.k = "none" \/ row.time.k = "none"
           THEN [RaiseAt(st, row, "device", weight) EXCEPT !.lw = lw]
      ELSE [st EXCEPT !.db = DbAddEntry(st.db, entry),
                      !.count = @ + 1,
                      !.lw = lw,
                      !.log = Logged(st, row, "device", weight, "new",
                                     st.db.next)]

RECURSIVE DeviceRows(_, _, _)
DeviceRows(st, rows, user_height) ==
  IF st.raised \/ rows = <<>> THEN st
  ELSE DeviceRows(DeviceRow(st, Head(rows), user_height), Tail(rows),
                  user_height)

\* _process_json_file: json.load, then "for entry in data"; iterating a
\* dict yields its keys, and a key has no .get
ProcessJsonFile(st, m, user_height) ==
  LET opened == [st EXCEPT !.opened = @ + 1, !.lw = Unbound]
  IN  IF m.kind = "list" THEN DeviceRows(opened, m.rows, user_height)
      ELSE [opened EXCEPT !.raised = TRUE]

RECURSIVE ProcessMembers(_, _, _)
ProcessMembers(st, ms, user_height) ==
  IF st.raised \/ ms = <<>> THEN st
  ELSE ProcessMembers(ProcessJsonFile(st, Head(ms), user_height), Tail(ms),
                      user_height)

\* the body of the try block of load_files for one file
LoadOne(st, file, user_height) ==
  IF file.name_zip
  THEN IF ~file.is_zip THEN [st EXCEPT !.raised = TRUE]
       ELSE ProcessMembers(st, file.json, user_height)
  ELSE ProcessJsonFile(st, file.json[1], user_height)

\* "for file in files: try: ... except Exception: QMessageBox.warning":
\* a failure ends that file, is counted in errors, and the loop goes on
RECURSIVE LoadFiles(_, _, _)
LoadFiles(st, files, user_height) ==
  IF files = <<>> THEN st
  ELSE LET r == LoadOne([st EXCEPT !.raised = FALSE], Head(files), user_height)
       IN  LoadFiles([r EXCEPT !.errors = IF r.raised THEN st.errors + 1
                                          ELSE st.errors,
                               !.raised = FALSE],
                     Tail(files), user_height)

LoadStart(db) ==
  [db |-> db, count |-> 0, raised |-> FALSE, opened |-> 0, log |-> <<>>,
   lw |-> Unbound, errors |-> 0]

(* ------------------------------------------------------------------ *)
(* The inputs the operations are run on                               *)
(* ------------------------------------------------------------------ *)

D1 == Mdy(1, 5, 23, TRUE)
D1u == Mdy(1, 5, 23, FALSE)
D2 == Mdy(1, 6, 23, TRUE)
Y1 == Ymd(2023, 1, 5)
YBad == Ymd(2023, 13, 1)
T7 == Hms(7, 0, 0)

JOk == [EmptyRow EXCEPT !.date = D1, !.time = T7, !.weight = Num(70),
                        !.logId = Num(1), !.bmi = Num(3000)]
JLb == [EmptyRow EXCEPT !.dateTime = Y1, !.weight = Num(220)]
J200 == [EmptyRow EXCEPT !.date = D2, !.time = T7, !.weight = Num(200)]
JNoWeight == [EmptyRow EXCEPT !.date = D2, !.time = T7, !.fat = Num(18)]
JNoDate == [EmptyRow EXCEPT !.time = T7, !.weight = Num(70)]
JNeg == [EmptyRow EXCEPT !.date = D2, !.time = T7, !.weight = Num(-5)]
JZero == [EmptyRow EXCEPT !.date = D2, !.time = T7, !.weight = Num(0)]
JStr == [EmptyRow EXCEPT !.date = D2, !.time = T7, !.weight = Str]
JBadDate == [EmptyRow EXCEPT !.date = YBad, !.weight_kg = Num(70)]
J100 == [EmptyRow EXCEPT !.date = D2, !.time = T7, !.weight = Num(100)]
J150 == [EmptyRow EXCEPT !.date = D1, !.time = T7, !.weight = Num(150),
                         !.logId = Num(1)]

\* rows of CSV frames with the columns date, time, weight, fat: an empty
\* cell is NaN
CLb == [EmptyRow EXCEPT !.date = Y1, !.time = T7, !.weight = Num(220),
                        !.fat = Num(18)]
CNoDate == [EmptyRow EXCEPT !.date = NaNDate, !.time = T7,
                            !.weight = Num(70), !.fat = NaN]
CNaN == [EmptyRow EXCEPT !.date = Y1, !.time = T7, !.weight = NaN,
                         !.fat = Num(18)]
\* a row of a CSV frame with the columns date, time, fat
CNoWeight == [EmptyRow EXCEPT !.date = Y1, !.time = T7, !.fat = Num(18)]

Files ==
  << ZipFile(NoCsv, <<Member(TRUE, "list", <<JOk, JLb>>)>>),
     ZipFile(NoCsv, <<Member(TRUE, "list", <<JOk, JStr>>)>>),
     ZipFile(NoCsv, <<Member(TRUE, "bad", <<>>), Member(TRUE, "list", <<JOk>>)>>),
     ZipFile(NoCsv, <<Member(TRUE, "list", <<JNoWeight, JNoDate, J200>>)>>),
     ZipFile(NoCsv, <<Member(TRUE, "dict", <<JZero, JNeg>>)>>),
     ZipFile(Csv(<<CLb, CNoDate>>), <<Member(TRUE, "list", <<JOk>>)>>),
     ZipFile(Csv(<<CNaN>>), <<>>),
     ZipFile(NoCsv, <<Member(FALSE, "list", <<JOk>>)>>),
     NotAZip,
     ZipFile(NoCsv, <<DictMember(TRUE, JBadDate)>>),
     JsonFile(Member(TRUE, "list", <<JNoWeight, J150>>)),
     JsonFile(Member(TRUE, "list", <<J100, JNoWeight>>)),
     JsonFile(DictMember(TRUE, JOk)),
     ZipFile(Csv(<<CNoWeight>>), <<>>),
     JsonFile(Member(TRUE, "list", <<JOk>>)) >>

\* the selections of the desktop file dialog (positions in Files)
Batches == << <<>>, <<11>>, <<12>>, <<13, 11>>, <<3>>, <<9, 12>>, <<1>>, <<15>> >>

RECURSIVE FilesOf(_)
FilesOf(batch) ==
  IF batch = <<>> THEN <<>> ELSE <<Files[Head(batch)]>> \o FilesOf(Tail(batch))

\* entries offered to add_if_new directly
Entries ==
  << MkEntry(Num(1), D1, T7, Kg(70), Null, Null, "Fitbit"),
     MkEntry(Num(1), D2, T7, Kg(71), Null, Null, "Fitbit"),
     MkEntry(Null, D1u, T7, Kg(72), Null, Null, "Fitbit"),
     MkEntry(Null, RawDate("nan"), T7, Kg(73), Null, Null, "Fitbit"),
     MkEntry(NaN, D2, T7, Kg(74), Null, Null, "Fitbit") >>

\* submitted forms: logId, date, time, weight_kg as the form parsing leaves
\* them (a missing or non-numeric number is None; a missing date or time
\* key is "none", an empty field is the empty text)
Form(logId, date, time, weight) ==
  [logId |-> logId, date |-> date, time |-> time, weight |-> weight]

Forms ==
  << Form(Null, D1, T7, Num(80)),
     Form(Num(1), D1u, T7, Num(70)),
     Form(Null, D2, T7, Null),
     Form(Null, NoDate, T7, Num(70)),
     Form(Null, RawDate(""), T7, Num(-1)) >>

\* submitted heights, in centimetres: a number, a text that is no number,
\* or no height key at all
HeightInputs == {Num(175), Num(0), Str, Null}

\* texts of the desktop height field: a number or not
HeightTexts == {Num(175), Str}

(* ------------------------------------------------------------------ *)
(* State                                                              *)
(* ------------------------------------------------------------------ *)

VARIABLES
  db,           \* the entries table [rows, next] of weight_data.db
  height,       \* data_manager.height of the web process
  user_height,  \* MainWindow.user_height of the desktop process
  last,         \* the last operation: its input and what its caller got
  req           \* per worker process: its add_if_new call in progress

vars == <<db, height, user_height, last, req>>

\* two of the worker processes gunicorn starts; each serves one request at
\* a time over its own connection to weight_data.db
Workers == {1, 2}

\* pc    "idle", "ts" (the logId SELECT found nothing, the timestamp SELECT
\*       is next), "ins" (entry_exists returned False, the INSERT is
\*       next) or "done" (add_if_new returned ret)
\* arg   the position of the entry in Entries
\* base  db.next when the call began
Idle == [pc |-> "idle", arg |-> 0, ret |-> FALSE, base |-> 0]

\* op      the operation
\* arg     the position of its input in Entries / Files / Batches / Forms
\* id      the entry id of an edit or a delete
\* status  "ok", "rejected" (refused upload), "bad_request" (missing form
\*         key), "invalid" (height not a number), "not_found" (IndexError:
\*         no row has the id), "raised" (another exception left the
\*         handler) or "failed" (the import route caught one)
\* ret     add_if_new's return value
\* count   new_count when the import returned or raised
\* shown   whether the caller was given count
\* errors  the error messages the caller was given
\* opened  archive members / files the import opened
\* rep     the operation before was the same import and returned (for
\*         load_files: was the load of the same selection)
\* log     what became of each source row the import reached
\* listing the rows the index page was given
\* after   for the index page: the operation before it, when that
\*         operation inserted an entry; for an import: the import before
\*         it, when that one found no weight data in its archive
NoAfter == [op |-> "none", arg |-> 0, status |-> "ok", ret |-> FALSE]

NoOp ==
  [op |-> "init", arg |-> 0, id |-> 0, status |-> "ok", ret |-> FALSE,
   count |-> 0, shown |-> FALSE, errors |-> 0, opened |-> 0, rep |-> FALSE,
   log |-> <<>>, listing |-> <<>>, after |-> NoAfter]

Init ==
  /\ db = [rows |-> <<>>, next |-> 1]
  /\ height = Null
  /\ user_height = Null
  /\ last = NoOp
  /\ req = [w \in Workers |-> Idle]

(* ------------------------------------------------------------------ *)
(* Operations                                                         *)
(* ------------------------------------------------------------------ *)

\* a direct call of DataManager.add_if_new
AddIfNew(i) ==
  LET r == DbAddIfNew(db, Entries[i])
  IN  /\ r.db.next <= MaxId + 1
      /\ db' = r.db
      /\ last' = [NoOp EXCEPT !.op = "add_if_new", !.arg = i, !.ret = r.ret]
      /\ UNCHANGED <<height, user_height, req>>

\* POST /import; f = 0: the request carries no file
ImportZipRoute(f) ==
  IF f = 0 \/ ~Files[IF f = 0 THEN 1 ELSE f].name_zip
  THEN /\ last' = [NoOp EXCEPT !.op = "import", !.status = "rejected",
                               !.errors = 1]
       /\ UNCHANGED <<db, height, user_height, req>>
  ELSE LET st == ImportFitbitZip(db, Files[f], "Fitbit")
       IN  /\ st.db.next <= MaxId + 1
           /\ db' = st.db
           /\ last' = [NoOp EXCEPT
                !.op = "import", !.arg = f,
                !.status = IF st.raised THEN "failed" ELSE "ok",
                !.count = st.count, !.shown = ~st.raised,
                !.errors = IF st.raised THEN 1 ELSE 0,
                !.opened = st.opened, !.log = st.log,
                !.rep = (last.op = "import" /\ last.arg = f
                         /\ last.status = "ok"),
                !.after = IF last.op = "import" /\ last.arg # 0
                             /\ NoWeightData(Files[last.arg])
                          THEN [op |-> last.op, arg |-> last.arg,
                                status |-> last.status, ret |-> FALSE]
                          ELSE NoAfter]
           /\ UNCHANGED <<height, user_height, req>>

\* the entry dict /add and /edit build from the form
FormKg(form) == IF form.weight.k = "num" THEN Kg(form.weight.v) ELSE NullKg

FormEntry(form, h) ==
  MkEntry(form.logId, form.date, form.time, FormKg(form), Null,
          IF HeightSet(h) THEN ComputeBmi(FormKg(form), h) ELSE Null,
          "Manual")

\* request.form['date'] / ['time'] of a missing key: 400
FormIncomplete(form) == form.date.k = "none" \/ form.time.k = "none"

\* entry['weight_kg'] / (height ** 2) with weight_kg None: TypeError
FormRaises(form, h) == HeightSet(h) /\ form.weight.k # "num"

\* POST /add
WebAdd(i) ==
  LET form == Forms[i]
  IN  /\ db.next <= MaxId
      /\ last' = [NoOp EXCEPT !.op = "add", !.arg = i,
                    !.status = IF FormIncomplete(form) THEN "bad_request"
                               ELSE IF FormRaises(form, height) THEN "raised"
                               ELSE "ok"]
      /\ db' = IF FormIncomplete(form) \/ FormRaises(form, height) THEN db
               ELSE DbAddEntry(db, FormEntry(form, height))
      /\ UNCHANGED <<height, user_height, req>>

\* POST /edit/<entry_id>
WebEdit(id, i) ==
  LET form == Forms[i]
      missing == WithId(db.rows, id) = {}
  IN  /\ last' = [NoOp EXCEPT !.op = "edit", !.id = id,
                    !.arg = IF missing THEN 0 ELSE i,
                    !.status = IF missing THEN "not_found"
                               ELSE IF FormIncomplete(form) THEN "bad_request"
                               ELSE IF FormRaises(form, height) THEN "raised"
                               ELSE "ok"]
      /\ db' = IF missing \/ FormIncomplete(form) \/ FormRaises(form, height)
               THEN db
               ELSE DbUpdateEntry(db, id, FormEntry(form, height))
      /\ UNCHANGED <<height, user_height, req>>

\* the operation recorded in a made an insert
Inserted(a) ==
  \/ a.op \in {"add", "desktop_add"} /\ a.status = "ok"
  \/ a.op = "add_if_new" /\ a.ret

\* a direct call of DataManager.update_entry
UpdateEntry(id, i) ==
  /\ db' = DbUpdateEntry(db, id, Entries[i])
  /\ last' = [NoOp EXCEPT !.op = "update_entry", !.id = id, !.arg = i]
  /\ UNCHANGED <<height, user_height, req>>

\* GET /: the table of get_all_entries
Index ==
  /\ \E df \in GetAllEntries(db.rows) :
       last' = [NoOp EXCEPT !.op = "index", !.listing = df,
                  !.after = IF Inserted(last)
                            THEN [op |-> last.op, arg |-> last.arg,
                                  status |-> last.status, ret |-> last.ret]
                            ELSE NoAfter]
  /\ UNCHANGED <<db, height, user_height, req>>

\* POST /delete/<entry_id>
WebDelete(id) ==
  /\ db' = DbDeleteEntry(db, id)
  /\ last' = [NoOp EXCEPT !.op = "delete", !.id = id]
  /\ UNCHANGED <<height, user_height, req>>

\* POST /settings
Settings(h) ==
  /\ height' = IF h.k = "num" THEN h ELSE height
  /\ last' = [NoOp EXCEPT !.op = "settings",
                !.status = CASE h.k = "num" -> "ok"
                             [] h.k = "null" -> "bad_request"
                             [] OTHER -> "invalid"]
  /\ UNCHANGED <<db, user_height, req>>

\* MainWindow.load_files
LoadFilesAct(b) ==
  LET st == LoadFiles(LoadStart(db), FilesOf(Batches[b]), user_height)
  IN  /\ st.db.next <= MaxId + 1
      /\ db' = st.db
      /\ last' = [NoOp EXCEPT !.op = "load_files", !.arg = b,
                    !.count = st.count, !.errors = st.errors,
                    !.opened = st.opened, !.log = st.log,
                    !.rep = (last.op = "load_files" /\ last.arg = b)]
      /\ UNCHANGED <<height, user_height, req>>

\* EntryDialog.get_data, then float(entry["weight_kg"]): an empty or
\* non-numeric weight text raises ValueError
DialogRaises(form) == form.weight.k # "num"

\* the text of a dialog field: an untouched field is the empty text
DialogDate(x) == IF x.k = "none" THEN RawDate("") ELSE x
DialogTime(x) == IF x.k = "none" THEN RawTime("") ELSE x

DialogEntry(form, h) ==
  MkEntry(form.logId, DialogDate(form.date), DialogTime(form.time),
          FormKg(form), Null,
          IF HeightSet(h) THEN ComputeBmi(FormKg(form), h) ELSE Null,
          "Manual")

\* MainWindow.add_entry, the dialog accepted
DesktopAdd(i) ==
  LET form == Forms[i]
  IN  /\ db.next <= MaxId
      /\ last' = [NoOp EXCEPT !.op = "desktop_add", !.arg = i,
                    !.status = IF DialogRaises(form) THEN "raised" ELSE "ok"]
      /\ db' = IF DialogRaises(form) THEN db
               ELSE DbAddEntry(db, DialogEntry(form, user_height))
      /\ UNCHANGED <<height, user_height, req>>

\* MainWindow.save_settings
SaveSettings(h) ==
  /\ user_height' = IF h.k = "num" THEN h ELSE user_height
  /\ last' = [NoOp EXCEPT !.op = "save_settings",
                !.status = IF h.k = "num" THEN "ok" ELSE "invalid"]
  /\ UNCHANGED <<db, height, req>>

\* the store and the handlers of manual entry of both front ends
Next ==
  \/ \E i \in 1..Len(Entries) : AddIfNew(i)
  \/ \E i \in 1..Len(Forms) : WebAdd(i)
  \/ \E id \in 1..MaxId, i \in 1..Len(Forms) : WebEdit(id, i)
  \/ \E id \in 1..MaxId : WebDelete(id)
  \/ \E h \in HeightInputs : Settings(h)
  \/ \E i \in 1..Len(Forms) : DesktopAdd(i)
  \/ Index

Spec == Init /\ [][Next]_vars

\* add_if_new in a worker, statement by statement.  The call begins with
\* the first SELECT of entry_exists: by logId when the entry has one,
\* otherwise by timestamp.  A call begins only when the ids left allow
\* every call in progress to finish.
Begin(w, i) ==
  LET e == Entries[i]
      ts == DeriveTimestamp(e.date, e.time)
      busy == {v \in Workers : req[v].pc \in {"ts", "ins"}}
      found == IF e.logId.k # "null" THEN LogIdMatch(db.rows, e.logId)
               ELSE TimestampMatch(db.rows, ts)
  IN  /\ req[w].pc \in {"idle", "done"}
      /\ db.next + Cardinality(busy) <= MaxId
      /\ req' = [req EXCEPT ![w] =
            [pc |-> IF found THEN "done"
                    ELSE IF e.logId.k # "null" THEN "ts" ELSE "ins",
             arg |-> i, ret |-> FALSE, base |-> db.next]]
      /\ UNCHANGED <<db, height, user_height, last>>

\* "SELECT 1 FROM entries WHERE timestamp=?" after the logId SELECT
SelectTimestamp(w) ==
  LET e == Entries[req[w].arg]
  IN  /\ req[w].pc = "ts"
      /\ req' = [req EXCEPT ![w].pc =
            IF TimestampMatch(db.rows, DeriveTimestamp(e.date, e.time))
            THEN "done" ELSE "ins"]
      /\ UNCHANGED <<db, height, user_height, last>>

\* self.add_entry(entry); return True
Insert(w) ==
  /\ req[w].pc = "ins"
  /\ db' = DbAddEntry(db, Entries[req[w].arg])
  /\ req' = [req EXCEPT ![w].pc = "done", ![w].ret = TRUE]
  /\ UNCHANGED <<height, user_height, last>>

\* concurrent add_if_new calls of the workers
NextRace ==
  \/ \E w \in Workers, i \in 1..Len(Entries) : Begin(w, i)
  \/ \E w \in Workers : SelectTimestamp(w)
  \/ \E w \in Workers : Insert(w)

SpecRace == Init /\ [][NextRace]_vars

\* the methods of DataManager, called directly
NextStore ==
  \/ \E i \in 1..Len(Entries) : AddIfNew(i)
  \/ \E id \in 1..MaxId + 1, i \in 1..Len(Entries) : UpdateEntry(id, i)
  \/ \E id \in 1..MaxId + 1 : WebDelete(id)
  \/ Index

SpecStore == Init /\ [][NextStore]_vars

\* the import paths of both front ends, and delete
NextImport ==
  \/ \E f \in 0..Len(Files) : ImportZipRoute(f)
  \/ \E b \in 1..Len(Batches) : LoadFilesAct(b)
  \/ \E id \in 1..MaxId : WebDelete(id)
  \/ \E h \in HeightTexts : SaveSettings(h)

SpecImport == Init /\ [][NextImport]_vars

\* the routes of webapp.py
NextWeb ==
  \/ \E f \in 0..Len(Files) : ImportZipRoute(f)
  \/ \E i \in 1..Len(Forms) : WebAdd(i)
  \/ \E id \in 1..MaxId, i \in 1..Len(Forms) : WebEdit(id, i)
  \/ \E id \in 1..MaxId : WebDelete(id)
  \/ \E h \in HeightInputs : Settings(h)
  \/ Index

SpecWeb == Init /\ [][NextWeb]_vars

(* ------------------------------------------------------------------ *)
(* Properties                                                         *)
(* ------------------------------------------------------------------ *)

ImportOps == {"import", "load_files"}

\* the stored row with this id satisfies P
RowHas(id, P(_)) == \E j \in 1..Len(db.rows) : db.rows[j].id = id /\ P(db.rows[j])

Positive(kg) == kg.k = "num" /\ (kg.whole > 0 \/ (kg.whole = 0 /\ kg.frac > 0))

\* b is kg / h^2 in hundredths, rounded down
IsBmiOf(b, kg, h) ==
  /\ b.k = "num"
  /\ b.v * (h.v * h.v) <= KgMicro(kg)
  /\ KgMicro(kg) < (b.v + 1) * (h.v * h.v)

\* C1: add_if_new(entry) returns True and appends exactly one row, the
\* entry's, when no stored row has the entry's non-null logId and none has
\* its derived timestamp; otherwise it returns False and the table is
\* unchanged.
C1_AddIfNew ==
  [][last'.op = "add_if_new" =>
       LET e == Entries[last'.arg]
           ts == DeriveTimestamp(e.date, e.time)
           dup == \E j \in 1..Len(db.rows) :
                     \/ (e.logId.k # "null" /\ db.rows[j].logId = e.logId)
                     \/ db.rows[j].timestamp = ts
       IN  IF dup
           THEN ~last'.ret /\ db' = db
           ELSE /\ last'.ret
                /\ Len(db'.rows) = Len(db.rows) + 1
                /\ SubSeq(db'.rows, 1, Len(db.rows)) = db.rows
                /\ LET r == db'.rows[Len(db'.rows)]
                   IN  /\ r.id = db.next
                       /\ r.date = e.date /\ r.time = e.time
                       /\ r.timestamp = ts
                       /\ r.weight_kg = e.weight_kg]_vars

\* C1 witness: an entry was refused for its logId alone: a stored row has
\* its logId, none has its timestamp.
C1_Witness ==
  /\ last.op = "add_if_new" /\ ~last.ret
  /\ LET e == Entries[last.arg]
     IN  /\ \E j \in 1..Len(db.rows) : db.rows[j].logId = e.logId
         /\ \A j \in 1..Len(db.rows) :
               db.rows[j].timestamp # DeriveTimestamp(e.date, e.time)

\* C2: an import of the archive that the operation just before imported
\* (and returned from) returns 0 and leaves the number of rows as it was.
C2_ImportTwice ==
  [][last'.op = "import" /\ last'.rep =>
       /\ last'.status = "ok" /\ last'.shown
       /\ last'.count = 0
       /\ Len(db'.rows) = Len(db.rows)]_vars

\* C2 witness: the second of two imports of one archive, the first of
\* which added rows.
C2_Witness ==
  /\ last.op = "import" /\ last.rep /\ last.count = 0
  /\ \E i \in 1..Len(last.log) : last.log[i].out = "dup"
  /\ Len(db.rows) >= 2

\* the weight_kg the claim expects of a source weight w on a path whose
\* threshold is t, converting above t (strict) or from t on
ExpectedKg(w, t, strict) ==
  IF (strict /\ w > t) \/ (~strict /\ w >= t) THEN LbToKg(w) ELSE Kg(w)

ThresholdOf(path) ==
  IF path = "device" THEN DeviceLbThreshold ELSE ArchiveLbThreshold

StoredAsExpected(strict) ==
  last.op \in ImportOps =>
    \A i \in 1..Len(last.log) :
      LET l == last.log[i]
      IN  l.out = "new" /\ l.w.k = "num" =>
            RowHas(l.id, LAMBDA r :
               r.weight_kg = ExpectedKg(l.w.v, ThresholdOf(l.path), strict))

\* C3 as stated: every imported weight w is stored as w when it is under
\* the threshold of its path (200 archive, 100 device) and as
\* w * 0.45359237 when it is at or above it.
C3_AsStated == StoredAsExpected(FALSE)

\* C3 amended: every imported weight w is stored as w when it is at or
\* under the threshold of its path and as w * 0.45359237 when it is
\* strictly above it.
C3_Amended == StoredAsExpected(TRUE)

\* C3 witness: 220 came in by an archive and is stored as 99.79032140 kg.
C3_Witness ==
  /\ last.op = "import"
  /\ \E i \in 1..Len(last.log) :
       /\ last.log[i].out = "new" /\ last.log[i].w = Num(220)
       /\ RowHas(last.log[i].id, LAMBDA r :
            r.weight_kg = [k |-> "num", whole |-> 99, frac |-> 79032140])

\* C4: on every import path a source row without a usable weight (no
\* weight key or column, or an empty cell) is skipped: no row, no
\* exception, and the import goes on to the next row.
C4_NoWeightSkipped ==
  last.op \in ImportOps =>
    \A i \in 1..Len(last.log) :
      last.log[i].w.k \in {"null", "nan"} => last.log[i].out = "skip"

\* C5: in import_fitbit_zip, on the CSV and the JSON branch, a source row
\* with a weight and without a date is skipped.
C5_NoDateSkipped ==
  last.op = "import" =>
    \A i \in 1..Len(last.log) :
      LET l == last.log[i]
      IN  (l.w.k = "num" /\ l.src.date.k \in {"none", "nan"}
           /\ l.src.dateTime.k = "none") => l.out = "skip"

\* C6: every row import_fitbit_zip stores has a positive weight_kg.
C6_StoredWeightPositive ==
  last.op = "import" =>
    \A i \in 1..Len(last.log) :
      last.log[i].out = "new" =>
        RowHas(last.log[i].id, LAMBDA r : Positive(r.weight_kg))

\* C7: with a height h configured, an entry created by an import or a
\* manual add, or changed by an edit, has bmi = weight_kg / h^2.
C7_BmiFromHeight ==
  /\ (last.op = "import" /\ HeightSet(height)) =>
       \A i \in 1..Len(last.log) :
         last.log[i].out = "new" =>
           RowHas(last.log[i].id, LAMBDA r :
              r.weight_kg.k = "num" => IsBmiOf(r.bmi, r.weight_kg, height))
  /\ (last.op = "load_files" /\ HeightSet(user_height)) =>
       \A i \in 1..Len(last.log) :
         last.log[i].out = "new" =>
           RowHas(last.log[i].id, LAMBDA r :
              r.weight_kg.k = "num" => IsBmiOf(r.bmi, r.weight_kg, user_height))
  /\ (last.op = "add" /\ last.status = "ok" /\ HeightSet(height)) =>
       LET r == db.rows[Len(db.rows)]
       IN  IsBmiOf(r.bmi, r.weight_kg, height)
  /\ (last.op = "edit" /\ last.status = "ok" /\ HeightSet(height)) =>
       RowHas(last.id, LAMBDA r : IsBmiOf(r.bmi, r.weight_kg, height))

\* the .json members load_files opens in a file, and in a selection
MembersOf(file) == IF file.name_zip THEN Len(file.json) ELSE 1

RECURSIVE MembersIn(_)
MembersIn(files) ==
  IF files = <<>> THEN 0 ELSE MembersOf(Head(files)) + MembersIn(Tail(files))

\* C8: when a member of an import batch fails, the failure is reported,
\* every other file and member of the batch is still opened, and the
\* caller is given the count of new rows with the error messages.
C8_FailureIsolation ==
  /\ (last.op = "import" /\ last.status = "failed" /\ last.opened > 0) =>
       /\ last.errors > 0 /\ last.shown
       /\ last.opened = IF Files[last.arg].csv.present THEN 1
                        ELSE Len(WeightMembers(Files[last.arg].json))
  /\ (last.op = "load_files" /\ last.errors > 0) =>
       /\ last.shown
       /\ last.opened = MembersIn(FilesOf(Batches[last.arg]))

\* C9: when an import has failed part-way, every row it inserted before
\* the failure is in the table, after the rows that were there.
C9_FailureKeepsRows ==
  [][(last'.op = "import" /\ last'.status = "failed") =>
       /\ Len(db'.rows) = Len(db.rows) + last'.count
       /\ SubSeq(db'.rows, 1, Len(db.rows)) = db.rows
       /\ \A i \in 1..Len(last'.log) :
            last'.log[i].out = "new" =>
              \E j \in Len(db.rows) + 1..Len(db'.rows) :
                 db'.rows[j].id = last'.log[i].id]_vars

\* C9 witness: an import failed after it had inserted a row, and the row
\* is in the table.
C9_Witness ==
  /\ last.op = "import" /\ last.status = "failed" /\ last.count > 0
  /\ \E i \in 1..Len(last.log) :
       last.log[i].out = "new" /\ RowHas(last.log[i].id, LAMBDA r : TRUE)

\* a form whose weight is missing or no number, or whose date is missing
\* or empty
FormInvalid(form) ==
  \/ form.weight.k # "num"
  \/ form.date.k = "none"
  \/ (form.date.k = "raw" /\ form.date.s = "")

\* C10: a manual add or edit whose weight or date is missing or invalid
\* leaves the table as it is and gives the caller a validation error.
C10_InvalidRejected ==
  [][(last'.op \in {"add", "edit", "desktop_add"} /\ last'.arg # 0
      /\ FormInvalid(Forms[last'.arg])) =>
       /\ db' = db
       /\ last'.status \in {"bad_request", "invalid"}]_vars

\* the entry an insert-making operation handed to add_entry
InsertedEntry(op, arg) ==
  CASE op = "add" -> FormEntry(Forms[arg], Null)
    [] op = "desktop_add" -> DialogEntry(Forms[arg], Null)
    [] OTHER -> Entries[arg]

\* "YYYY-MM-DD HH:MM:SS" of month/day/2-digit-year and H:M:S
CanonicalText(date, time) ==
  Dec4(IF date.y < 69 THEN 2000 + date.y ELSE 1900 + date.y) \o <<45>>
  \o Dec2(date.m) \o <<45>> \o Dec2(date.d) \o <<32>>
  \o Dec2(time.h) \o <<58>> \o Dec2(time.mi) \o <<58>> \o Dec2(time.se)

\* C11: the listing taken right after an insert holds the inserted entry,
\* its timestamp the canonical text when date and time parse and the raw
\* text date + " " + time when they do not; and a manual add whose form is
\* complete and whose bmi can be computed is stored whether or not its
\* date and time parse.
C11_RoundTrip ==
  [][/\ (last'.op = "index" /\ Inserted(last)) =>
          LET e == InsertedEntry(last.op, last.arg)
          IN  \E k \in 1..Len(last'.listing) :
                 /\ last'.listing[k].id = db.next - 1
                 /\ last'.listing[k].date = e.date
                 /\ last'.listing[k].time = e.time
                 /\ last'.listing[k].timestamp =
                      IF ParsesMdyHms(e.date, e.time)
                      THEN CanonicalText(e.date, e.time)
                      ELSE DateText(e.date) \o <<32>> \o TimeText(e.time)
     /\ (last'.op = "add" /\ ~FormIncomplete(Forms[last'.arg])
         /\ ~FormRaises(Forms[last'.arg], height)) =>
          last'.status = "ok" /\ Len(db'.rows) = Len(db.rows) + 1]_vars

\* C11 witness: the listing after a manual add whose date is the empty
\* text holds the entry under the raw timestamp " 07:00:00".
C11_Witness ==
  /\ last.op = "index" /\ last.after.op = "add" /\ last.after.status = "ok"
  /\ ~ParsesMdyHms(Forms[last.after.arg].date, Forms[last.after.arg].time)
  /\ \E k \in 1..Len(last.listing) :
       /\ last.listing[k].id = db.next - 1
       /\ last.listing[k].timestamp = <<32>> \o TimeText(T7)

\* C12: update_entry(id, e) rewrites the row with that id and no other:
\* the row keeps its id and its place and takes e's fields and the
\* timestamp derived from them, whatever the other rows hold;
\* delete_entry(id) removes the row with that id and no other; with no
\* such row the table is as it was.
C12_UpdateDeleteFrame ==
  [][/\ last'.op = "update_entry" =>
          LET e == Entries[last'.arg]
          IN  /\ Len(db'.rows) = Len(db.rows) /\ db'.next = db.next
              /\ \A j \in 1..Len(db.rows) :
                   IF db.rows[j].id = last'.id
                   THEN /\ db'.rows[j].id = last'.id
                        /\ db'.rows[j].logId = Stored(e.logId)
                        /\ db'.rows[j].date = e.date
                        /\ db'.rows[j].time = e.time
                        /\ db'.rows[j].timestamp = DeriveTimestamp(e.date, e.time)
                        /\ db'.rows[j].weight_kg = e.weight_kg
                        /\ db'.rows[j].source = e.source
                   ELSE db'.rows[j] = db.rows[j]
     /\ last'.op = "delete" =>
          /\ db'.next = db.next
          /\ db'.rows = SelectSeq(db.rows, LAMBDA r : r.id # last'.id)]_vars

\* C12 witness: an update made a row equal in logId and in timestamp to
\* another stored row.
C12_Witness ==
  /\ last.op = "update_entry"
  /\ \E j, k \in 1..Len(db.rows) :
       /\ j # k /\ db.rows[j].id = last.id
       /\ db.rows[j].logId.k = "num"
       /\ db.rows[k].logId = db.rows[j].logId
       /\ db.rows[k].timestamp = db.rows[j].timestamp

\* C13: the import of an archive with neither a *Weight.csv member nor a
\* weight-*.json member fails with an error message and stores nothing,
\* and the import that follows it is processed as from the same table.
C13_NoWeightData ==
  [][/\ (last'.op = "import" /\ last'.arg # 0
         /\ NoWeightData(Files[last'.arg])) =>
          /\ last'.status = "failed" /\ last'.errors = 1 /\ ~last'.shown
          /\ last'.opened = 0 /\ last'.log = <<>>
          /\ db' = db
     /\ (last.op = "import" /\ last.arg # 0 /\ NoWeightData(Files[last.arg])
         /\ last'.op = "import" /\ last'.arg # 0) =>
          LET st == ImportFitbitZip(db, Files[last'.arg], "Fitbit")
          IN  /\ db' = st.db
              /\ last'.count = st.count
              /\ last'.status = IF st.raised THEN "failed" ELSE "ok"]_vars

\* C13 witness: an import that added rows right after an import that had
\* found no weight data.
C13_Witness ==
  /\ last.op = "import" /\ last.status = "ok" /\ last.count > 0
  /\ last.after.op = "import" /\ last.after.status = "failed"
  /\ NoWeightData(Files[last.after.arg])
  /\ Len(db.rows) = last.count

\* the number of rows of a log that were inserted
RECURSIVE NewIn(_)
NewIn(log) ==
  IF log = <<>> THEN 0
  ELSE (IF Head(log).out = "new" THEN 1 ELSE 0) + NewIn(Tail(log))

\* C14: the import of an archive with a *Weight.csv member reads that
\* member and no other: every row it reaches is a row of the CSV, in
\* order, and the count and the new rows of the table are those of the
\* CSV rows, whatever weight-*.json members the archive has.
C14_CsvOnly ==
  [][(last'.op = "import" /\ last'.arg # 0 /\ Files[last'.arg].is_zip
      /\ Files[last'.arg].csv.present) =>
       LET csv == Files[last'.arg].csv.rows
           log == last'.log
       IN  /\ last'.opened = 1
           /\ Len(log) <= Len(csv)
           /\ \A i \in 1..Len(log) : log[i].path = "csv" /\ log[i].src = csv[i]
           /\ last'.count = NewIn(log)
           /\ Len(db'.rows) = Len(db.rows) + NewIn(log)]_vars

\* C14 witness: an archive with a Weight.csv and a weight-*.json member
\* was imported and only its CSV rows were stored.
C14_Witness ==
  /\ last.op = "import" /\ last.arg # 0 /\ last.status = "ok"
  /\ Files[last.arg].csv.present
  /\ \E i \in 1..Len(Files[last.arg].json) : Files[last.arg].json[i].wname
  /\ last.count > 0 /\ last.count = Len(db.rows)
  /\ \A i \in 1..Len(last.log) : last.log[i].path = "csv"

\* C15: an import, whether it returns or raises, leaves every row that
\* was in the table in its place with its id and its fields; the rows it
\* adds come after them under ids not used before.
C15_ImportOnlyAdds ==
  [][last'.op = "import" =>
       /\ Len(db'.rows) >= Len(db.rows)
       /\ \A j \in 1..Len(db.rows) : db'.rows[j] = db.rows[j]
       /\ \A j \in Len(db.rows) + 1..Len(db'.rows) : db'.rows[j].id >= db.next]_vars

\* C15 witness: an import onto a table with rows found one of its rows
\* stored already and added another.
C15_Witness ==
  /\ last.op = "import" /\ last.count > 0
  /\ Len(db.rows) > last.count
  /\ \E i \in 1..Len(last.log) : last.log[i].out = "dup"

\* a stored row has the timestamp, or the non-null logId, of the entry
Duplicates(e) ==
  \E j \in 1..Len(db.rows) :
     \/ db.rows[j].timestamp = DeriveTimestamp(e.date, e.time)
     \/ (e.logId.k = "num" /\ db.rows[j].logId = e.logId)

\* C16: a manual add whose derived timestamp, or whose non-null logId, is
\* that of a stored entry is not stored.
C16_ManualDedup ==
  [][/\ (last'.op = "add" /\ Duplicates(FormEntry(Forms[last'.arg], height)))
          => db' = db
     /\ (last'.op = "desktop_add"
         /\ Duplicates(DialogEntry(Forms[last'.arg], user_height)))
          => db' = db]_vars

\* C17: the load of the selection of files that the operation just before
\* loaded, every file of it read without an error, leaves the number of
\* stored rows as it was.
C17_LoadTwice ==
  [][(last'.op = "load_files" /\ last'.rep /\ last'.errors = 0) =>
       Len(db'.rows) = Len(db.rows)]_vars

\* C18: a call of add_if_new that no insert of another worker fell into
\* (the table at its INSERT is the table it began on) never stores an
\* entry whose non-null logId or whose timestamp a stored row has; a call
\* that returns False stores nothing.  Only an insert made between the
\* check and the INSERT of a call lets that call store a duplicate.
C18_AtomicWhenAlone ==
  [][\A w \in Workers :
       /\ (req[w].pc = "ins" /\ req'[w].pc = "done"
           /\ req[w].base = db.next) =>
            LET e == Entries[req[w].arg]
            IN  /\ req'[w].ret
                /\ \A j \in 1..Len(db.rows) :
                     /\ db.rows[j].timestamp # DeriveTimestamp(e.date, e.time)
                     /\ ~(e.logId.k = "num" /\ db.rows[j].logId = e.logId)
       /\ (req[w].pc # "done" /\ req'[w].pc = "done" /\ ~req'[w].ret) =>
            db' = db]_vars

\* C18 witness: two workers offered the same new entry, both calls
\* returned True, and the entry is stored twice.
C18_Witness ==
  /\ \A w \in Workers : req[w].pc = "done" /\ req[w].ret
  /\ req[1].arg = req[2].arg
  /\ req[1].base = 1 /\ req[2].base = 1
  /\ Len(db.rows) = 2
  /\ db.rows[1].timestamp = db.rows[2].timestamp
  /\ db.rows[1].logId = db.rows[2].logId
  /\ db.rows[1].weight_kg = db.rows[2].weight_kg

====
